---- MODULE Spec2Model ----
(***************************************************************************)
(* Model of the kinorium scraper: the list parser and the field extractor  *)
(* of app/services/improved_scraper.py as operators over character         *)
(* sequences, and the three scraping operations with their HTTP endpoints  *)
(* (app/routers/scraper.py) as a state machine.                            *)
(* SpecList, SpecLinks, SpecSafe, SpecDetail, SpecYear, SpecAnchors and     *)
(* SpecUrl apply one function to bounded inputs; Spec runs one request and *)
(* SpecConcurrent interleaves two.                                         *)
(*                                                                         *)
(* A string is a sequence of one-character strings.  The Cyrillic letters  *)
(* of the boilerplate literals are written with the Latin letters t, o, p  *)
(* (one letter for one letter), the module text being ASCII.               *)
(***************************************************************************)
EXTENDS Integers, Sequences, FiniteSets, TLC

VARIABLES
    html,       \* the anchors (href, text nodes) of the rendered search page, in document order
    films,      \* what _parse_film_list returned for html
    parsed,     \* whether _parse_film_list has run
    first_link, \* what _find_first_film_link returned for html
    scanned,    \* whether _find_first_film_link has run
    selectors,  \* the ordered selector list handed to _safe_extract
    page,       \* the live page: selector -> what querying it gives
    value,      \* what _safe_extract returned
    details,    \* what _extract_film_details did: raised, or the record it returned
    extracted,  \* whether the extractor has run
    kind,       \* per request: which endpoint it is ("" before it starts)
    pc,         \* per request: the next step of the endpoint and its service call
    browser,    \* per request: "none", "open", "closed" (browser.close() has returned)
    context,    \* per request: "none", "open", "closed" (context.close() has returned)
    exc,        \* per request: the exception in flight, "none" if none
    seen,       \* per request: the anchors of the search page it rendered
    film_url,   \* per request: what _find_first_film_link returned
    dpage,      \* per request: the detail page it rendered
    ret,        \* per request: what the service call returned
    stored,     \* per request: the outcome of each create_scraping_result call, in order
    status,     \* per request: the HTTP status of the response, 0 before it is sent
    response,   \* per request: the response body
    trace,      \* per request: the steps taken so far, in order
    query,      \* the caller's text (genre or film name) of a search
    search_url, \* the search URL built from query
    built       \* whether the search URL has been built

listVars == <<html, films, parsed, first_link, scanned>>
pageVars == <<selectors, page, value, details, extracted>>
opVars == <<kind, pc, browser, context, exc, seen, film_url, dpage, ret, stored, status, response, trace>>
urlVars == <<query, search_url, built>>
vars == <<listVars, pageVars, opVars, urlVars>>

ListIdle ==
    /\ html = <<>> /\ films = <<>> /\ parsed = FALSE
    /\ first_link = [some |-> FALSE, val |-> <<>>] /\ scanned = FALSE

UrlIdle == query = <<>> /\ search_url = <<>> /\ built = FALSE

Requests == {"r1", "r2"}

\* ------------------------------------------------------------------ bounds
MaxLinks == 3
MaxHrefLen == 4
MaxPieces == 4
MaxSelectors == 3
MaxPresent == 2
MaxOpLinks == 2

\* ------------------------------------------------------- python str methods
Digits == {"0", "1", "2", "3", "4", "5", "6", "7", "8", "9"}
Whitespace == {" "}

StartsWith(s, p) == Len(s) >= Len(p) /\ SubSeq(s, 1, Len(p)) = p

Count(s, c) == Cardinality({i \in 1..Len(s) : s[i] = c})

IsDigit(s) == Len(s) > 0 /\ \A i \in 1..Len(s) : s[i] \in Digits

StripChars(s, cs) ==
    LET keep == {i \in 1..Len(s) : s[i] \notin cs}
    IN  IF keep = {} THEN <<>>
        ELSE LET lo == CHOOSE i \in keep : \A j \in keep : i <= j
                 hi == CHOOSE i \in keep : \A j \in keep : j <= i
             IN  SubSeq(s, lo, hi)

Strip(s) == StripChars(s, Whitespace)

RStripChars(s, cs) ==
    LET keep == {i \in 1..Len(s) : s[i] \notin cs}
    IN  IF keep = {} THEN <<>>
        ELSE SubSeq(s, 1, CHOOSE i \in keep : \A j \in keep : j <= i)

RECURSIVE Split(_, _)
Split(s, c) ==
    LET at == {i \in 1..Len(s) : s[i] = c}
    IN  IF at = {} THEN <<s>>
        ELSE LET i == CHOOSE k \in at : \A j \in at : k <= j
             IN  <<SubSeq(s, 1, i - 1)>> \o Split(SubSeq(s, i + 1, Len(s)), c)

RECURSIVE Replace(_, _)
Replace(s, old) ==
    IF Len(s) < Len(old) THEN s
    ELSE IF StartsWith(s, old) THEN Replace(SubSeq(s, Len(old) + 1, Len(s)), old)
    ELSE <<Head(s)>> \o Replace(Tail(s), old)

Contains(s, sub) ==
    \E i \in 1..(Len(s) - Len(sub) + 1) : SubSeq(s, i, i + Len(sub) - 1) = sub

RECURSIVE Concat(_)
Concat(ss) == IF ss = <<>> THEN <<>> ELSE Head(ss) \o Concat(Tail(ss))

SeqsUpTo(S, n) == UNION {[1..k -> S] : k \in 0..n}

\* ------------------------------------------------------------- constants
base_url == <<"https://ua.kinorium.com">>
Top500 == <<"t", "o", "p", "-", "5", "0", "0">>
Top250 == <<"t", "o", "p", "-", "2", "5", "0">>

\* ------------------------------------------------------ _parse_film_list
RECURSIVE StrippedNodes(_)
StrippedNodes(nodes) ==
    IF nodes = <<>> THEN <<>>
    ELSE (IF Strip(Head(nodes)) = <<>> THEN <<>> ELSE <<Strip(Head(nodes))>>)
         \o StrippedNodes(Tail(nodes))

get_text(link) == Concat(StrippedNodes(link.nodes))

HrefAcceptedNoSlashCount(href) ==
    /\ StartsWith(href, <<"/">>)
    /\ IsDigit(Split(StripChars(href, {"/"}), "/")[1])

HrefAccepted(href) ==
    /\ StartsWith(href, <<"/">>)
    /\ Count(href, "/") >= 2
    /\ IsDigit(Split(StripChars(href, {"/"}), "/")[1])

film_id(href) == Split(StripChars(href, {"/"}), "/")[1]

CleanTitle(link) ==
    LET title == get_text(link)
    IN  IF title # <<>> THEN Strip(Replace(Replace(title, Top500), Top250)) ELSE title

TitleAccepted(title) == title # <<>> /\ Len(title) > 2

FilmOf(link) ==
    [id |-> film_id(link.href),
     title |-> CleanTitle(link),
     url |-> base_url \o <<"/">> \o film_id(link.href) \o <<"/">>]

RECURSIVE Candidates(_)
Candidates(links) ==
    IF links = <<>> THEN <<>>
    ELSE (IF HrefAccepted(Head(links).href) /\ TitleAccepted(CleanTitle(Head(links)))
          THEN <<FilmOf(Head(links))>> ELSE <<>>)
         \o Candidates(Tail(links))

RECURSIVE UniqueFrom(_, _)
UniqueFrom(fs, seen_ids) ==
    IF fs = <<>> THEN <<>>
    ELSE IF Head(fs).id \notin seen_ids
         THEN <<Head(fs)>> \o UniqueFrom(Tail(fs), seen_ids \cup {Head(fs).id})
         ELSE UniqueFrom(Tail(fs), seen_ids)

KeepAll(fs) == fs

Unique(fs) == UniqueFrom(fs, {})

parse_film_list(links) == Unique(Candidates(links))

\* ------------------------------------------------------------ live page
\* Querying a selector raises (ok = FALSE) or gives the matching elements in
\* document order; an element's inner_text()/get_attribute() raises (ok = FALSE)
\* or gives its text and its src attribute.
None == [some |-> FALSE, val |-> <<>>]
Some(v) == [some |-> TRUE, val |-> v]

Elem(t) == [ok |-> TRUE, text |-> t, src |-> None]
Img(u) == [ok |-> TRUE, text |-> <<>>, src |-> u]
BrokenElem == [ok |-> FALSE, text |-> <<>>, src |-> None]

Missing == [ok |-> TRUE, elems |-> <<>>]
QueryRaises == [ok |-> FALSE, elems |-> <<>>]
Found(es) == [ok |-> TRUE, elems |-> es]

\* -------------------------------------------------------- _safe_extract
RECURSIVE safe_extract_first_only(_, _)
safe_extract_first_only(pg, sels) ==
    IF sels = <<>> THEN None
    ELSE LET q == pg[Head(sels)]
         IN  IF q.ok /\ q.elems # <<>> /\ q.elems[1].ok /\ Strip(q.elems[1].text) # <<>>
             THEN Some(Strip(q.elems[1].text))
             ELSE None

RECURSIVE safe_extract(_, _)
safe_extract(pg, sels) ==
    IF sels = <<>> THEN None
    ELSE LET q == pg[Head(sels)]
         IN  IF ~q.ok THEN safe_extract(pg, Tail(sels))
             ELSE IF q.elems = <<>> THEN safe_extract(pg, Tail(sels))
             ELSE IF ~q.elems[1].ok THEN safe_extract(pg, Tail(sels))
             ELSE IF q.elems[1].text # <<>> /\ Strip(q.elems[1].text) # <<>>
                  THEN Some(Strip(q.elems[1].text))
                  ELSE safe_extract(pg, Tail(sels))

\* ------------------------------------------------- _extract_film_details
Letters == {"A", "b", "c", "d", "e", "f", "x", "r", "i", "k"}
WordChars == Digits \cup Letters \cup {"_"}

\* re \b at position i (between s[i-1] and s[i])
WordBoundary(s, i) ==
    LET before == i > 1 /\ s[i - 1] \in WordChars
        after == i <= Len(s) /\ s[i] \in WordChars
    IN  before # after

\* re.search(r'(19|20)\d{2}', s), the pattern without its \b anchors
YearMatchUnanchored(s) ==
    LET hits == {i \in 1..(Len(s) - 3) :
                    /\ SubSeq(s, i, i + 1) \in {<<"1", "9">>, <<"2", "0">>}
                    /\ s[i + 2] \in Digits /\ s[i + 3] \in Digits}
    IN  IF hits = {} THEN 0 ELSE CHOOSE i \in hits : \A j \in hits : i <= j

\* re.search(r'\b(19|20)\d{2}\b', s): the start of the first match, 0 if none
YearMatch(s) ==
    LET hits == {i \in 1..(Len(s) - 3) :
                    /\ WordBoundary(s, i)
                    /\ SubSeq(s, i, i + 1) \in {<<"1", "9">>, <<"2", "0">>}
                    /\ s[i + 2] \in Digits /\ s[i + 3] \in Digits
                    /\ WordBoundary(s, i + 4)}
    IN  IF hits = {} THEN 0 ELSE CHOOSE i \in hits : \A j \in hits : i <= j

RECURSIVE IntOf(_)
IntOf(ds) ==
    IF ds = <<>> THEN 0
    ELSE 10 * IntOf(SubSeq(ds, 1, Len(ds) - 1))
         + (CHOOSE n \in 0..9 : <<"0", "1", "2", "3", "4", "5", "6", "7", "8", "9">>[n + 1] = ds[Len(ds)])

Year(year_text) ==
    IF year_text.some
    THEN LET i == YearMatch(year_text.val)
         IN  IF i > 0 THEN [some |-> TRUE, val |-> IntOf(SubSeq(year_text.val, i, i + 3))]
             ELSE [some |-> FALSE, val |-> 0]
    ELSE [some |-> FALSE, val |-> 0]

ReplaceChar(s, a, b) == [i \in 1..Len(s) |-> IF s[i] = a THEN b ELSE s[i]]

\* the length of the longest run of digits of s that starts at i
DigitRun(s, i) ==
    LET stop == {j \in i..(Len(s) + 1) : j = Len(s) + 1 \/ s[j] \notin Digits}
    IN  (CHOOSE j \in stop : \A k \in stop : j <= k) - i

\* re.search(r'(\d+\.?\d*)', s.replace(',', '.')) and float(): whole and fraction digits
Rating(rating_text) ==
    IF rating_text.some
    THEN LET s == ReplaceChar(rating_text.val, ",", ".")
             starts == {i \in 1..Len(s) : s[i] \in Digits}
         IN  IF starts = {} THEN [some |-> FALSE, whole |-> 0, frac |-> <<>>]
             ELSE LET i == CHOOSE k \in starts : \A j \in starts : k <= j
                      n == DigitRun(s, i)
                      dot == i + n <= Len(s) /\ s[i + n] = "."
                      m == IF dot THEN DigitRun(s, i + n + 1) ELSE 0
                  IN  [some |-> TRUE,
                       whole |-> IntOf(SubSeq(s, i, i + n - 1)),
                       frac |-> RStripChars(SubSeq(s, i + n + 1, i + n + m), {"0"})]
    ELSE [some |-> FALSE, whole |-> 0, frac |-> <<>>]

Take(s, n) == SubSeq(s, 1, IF Len(s) < n THEN Len(s) ELSE n)

RECURSIVE Join(_)
Join(ss) ==
    IF ss = <<>> THEN <<>>
    ELSE IF Len(ss) = 1 THEN ss[1]
    ELSE ss[1] \o <<",", " ">> \o Join(Tail(ss))

RECURSIVE KeptTexts(_)
KeptTexts(es) ==
    IF es = <<>> THEN <<>>
    ELSE (IF Strip(Head(es).text) # <<>> THEN <<Strip(Head(es).text)>> ELSE <<>>)
         \o KeptTexts(Tail(es))

\* query_selector_all(sel), then inner_text() of the first `cap` elements: raises?
CollectRaises(pg, sel, cap) ==
    \/ ~pg[sel].ok
    \/ \E i \in 1..Len(Take(pg[sel].elems, cap)) : ~pg[sel].elems[i].ok

\* the joined field: the kept texts of the first `cap` elements, at most `keep` of them
Collect(pg, sel, cap, keep) ==
    LET kept == KeptTexts(Take(pg[sel].elems, cap))
    IN  IF pg[sel].elems # <<>> /\ kept # <<>> THEN Some(Join(Take(kept, keep))) ELSE None

GenreCap == 5
ActorCap == 10
ActorKeep == 5
CountryCap == 3

SelTitle == <<"h1", ".film_title">>
SelYear == <<"time", "[itemprop=datePublished]">>
SelRating == <<"[itemprop=ratingValue]", ".rating_value">>
SelGenre == "a[href*=/genre/]"
SelDirector == <<"[itemprop=director] [itemprop=name]", "a[href*=/name/]">>
SelActor == "a[href*=/name/]"
SelDuration == <<"[itemprop=duration]", ".duration">>
SelCountry == "a[href*=/country/]"
SelDescription == <<"[itemprop=description]", ".film_description", ".description">>
SelPoster == "[itemprop=image]"

Range(f) == {f[i] : i \in DOMAIN f}

DetailSelectors ==
    Range(SelTitle) \cup Range(SelYear) \cup Range(SelRating) \cup Range(SelDirector)
    \cup Range(SelDuration) \cup Range(SelDescription)
    \cup {SelGenre, SelActor, SelCountry, SelPoster}

PosterRaises(pg) ==
    \/ ~pg[SelPoster].ok
    \/ pg[SelPoster].elems # <<>> /\ ~pg[SelPoster].elems[1].ok

Poster(pg) ==
    IF pg[SelPoster].elems # <<>> /\ pg[SelPoster].elems[1].src.some
       /\ pg[SelPoster].elems[1].src.val # <<>>
    THEN LET src == pg[SelPoster].elems[1].src.val
         IN  IF StartsWith(src, <<"/", "/">>) THEN Some(<<"https:">> \o src)
             ELSE IF StartsWith(src, <<"/">>) THEN Some(base_url \o src)
             ELSE Some(src)
    ELSE None

NoDetails ==
    [title |-> None, year |-> [some |-> FALSE, val |-> 0],
     rating |-> [some |-> FALSE, whole |-> 0, frac |-> <<>>],
     genres |-> None, director |-> None, actors |-> None, duration |-> None,
     country |-> None, description |-> None, poster_url |-> None]

extract_raises(pg) ==
    \/ CollectRaises(pg, SelGenre, GenreCap)
    \/ CollectRaises(pg, SelActor, ActorCap)
    \/ CollectRaises(pg, SelCountry, CountryCap)
    \/ PosterRaises(pg)

extract_film_details(pg) ==
    IF extract_raises(pg) THEN [raised |-> TRUE, fields |-> NoDetails]
    ELSE [raised |-> FALSE,
          fields |->
            [title |-> safe_extract(pg, SelTitle),
             year |-> Year(safe_extract(pg, SelYear)),
             rating |-> Rating(safe_extract(pg, SelRating)),
             genres |-> Collect(pg, SelGenre, GenreCap, GenreCap),
             director |-> safe_extract(pg, SelDirector),
             actors |-> Collect(pg, SelActor, ActorCap, ActorKeep),
             duration |-> safe_extract(pg, SelDuration),
             country |-> Collect(pg, SelCountry, CountryCap, CountryCap),
             description |-> safe_extract(pg, SelDescription),
             poster_url |-> Poster(pg)]]

\* ------------------------------------------------------- idle requests
BlankPage == [s \in DetailSelectors |-> Missing]

NoReturn == [ok |-> FALSE, films |-> <<>>, fields |-> NoDetails, url |-> <<>>]
NoResponse == [films |-> <<>>, count |-> 0, fields |-> NoDetails, url |-> <<>>]

OpsIdle ==
    /\ kind = [r \in Requests |-> ""]
    /\ pc = [r \in Requests |-> "idle"]
    /\ browser = [r \in Requests |-> "none"]
    /\ context = [r \in Requests |-> "none"]
    /\ exc = [r \in Requests |-> "none"]
    /\ seen = [r \in Requests |-> <<>>]
    /\ film_url = [r \in Requests |-> <<>>]
    /\ dpage = [r \in Requests |-> BlankPage]
    /\ ret = [r \in Requests |-> NoReturn]
    /\ stored = [r \in Requests |-> <<>>]
    /\ status = [r \in Requests |-> 0]
    /\ response = [r \in Requests |-> NoResponse]
    /\ trace = [r \in Requests |-> <<>>]

\* --------------------------------------- inputs of the extractor specs
PageIdle ==
    /\ selectors = <<>>
    /\ page = <<>>
    /\ value = None
    /\ details = [raised |-> FALSE, fields |-> NoDetails]
    /\ extracted = FALSE

ProbeSelectors == {"s1", "s2", "s3"}

ProbeOutcomes ==
    {QueryRaises, Missing, Found(<<BrokenElem>>), Found(<<Elem(<<>>)>>), Found(<<Elem(<<" ">>)>>),
     Found(<<Elem(<<" ", "A", "b", " ">>)>>), Found(<<Elem(<<"c", "d">>), Elem(<<"e">>)>>)}

InitSafe ==
    /\ selectors \in SeqsUpTo(ProbeSelectors, MaxSelectors)
    /\ page \in [ProbeSelectors -> ProbeOutcomes]
    /\ value = None
    /\ details = [raised |-> FALSE, fields |-> NoDetails]
    /\ extracted = FALSE
    /\ ListIdle
    /\ OpsIdle
    /\ UrlIdle

SafeExtract ==
    /\ ~extracted
    /\ value' = safe_extract(page, selectors)
    /\ extracted' = TRUE
    /\ UNCHANGED <<selectors, page, details, listVars, opVars, urlVars>>

NextSafe == SafeExtract

SpecSafe == InitSafe /\ [][NextSafe]_vars

DetailOutcomes ==
    {QueryRaises, Found(<<BrokenElem>>), Found(<<Elem(<<" ">>)>>),
     Found(<<Elem(<<"r", "i", "k", " ", "2", "0", "1", "4">>)>>),
     Found(<<Elem(<<"7", ",", "8">>), Elem(<<"c", "d">>)>>),
     Found(<<Img(Some(<<"/", "/", "i">>))>>), Found(<<Img(Some(<<"/", "i">>))>>)}

\* the pages on which at most n selectors match or raise
DetailPages(n) ==
    {[s \in DetailSelectors |-> IF s \in DOMAIN f THEN f[s] ELSE Missing] :
        f \in UNION {[S -> DetailOutcomes] : S \in {T \in SUBSET DetailSelectors : Cardinality(T) <= n}}}

InitDetail ==
    /\ selectors = <<>>
    /\ page \in DetailPages(MaxPresent)
    /\ value = None
    /\ details = [raised |-> FALSE, fields |-> NoDetails]
    /\ extracted = FALSE
    /\ ListIdle
    /\ OpsIdle
    /\ UrlIdle

ExtractFilmDetails ==
    /\ ~extracted
    /\ details' = extract_film_details(page)
    /\ extracted' = TRUE
    /\ UNCHANGED <<selectors, page, value, listVars, opVars, urlVars>>

NextDetail == ExtractFilmDetails

SpecDetail == InitDetail /\ [][NextDetail]_vars

\* ------------------------------------------- the extractor on year texts
MaxYearLen == 5

YearAlphabet == {"1", "9", "2", "0", "x", "-"}

\* what the second year selector gives when the first gives nothing
YearFallbacks == {Missing, Found(<<Elem(<<"2", "0", "0", "0">>)>>)}

YearPages(n) ==
    {[BlankPage EXCEPT ![SelYear[1]] = IF t = <<>> THEN Missing ELSE Found(<<Elem(t)>>),
                       ![SelYear[2]] = alt] :
        t \in SeqsUpTo(YearAlphabet, n), alt \in YearFallbacks}

InitYear ==
    /\ selectors = <<>>
    /\ page \in YearPages(MaxYearLen)
    /\ value = None
    /\ details = [raised |-> FALSE, fields |-> NoDetails]
    /\ extracted = FALSE
    /\ ListIdle
    /\ OpsIdle
    /\ UrlIdle

NextYear == ExtractFilmDetails

SpecYear == InitYear /\ [][NextYear]_vars

\* ------------------------------------------- the extractor on anchor lists
MaxAnchors == 6

\* an anchor: blank, with text, with padded text, or one whose inner_text() raises
AnchorKinds == {Elem(<<" ">>), Elem(<<"A">>), Elem(<<" ", "b", " ">>), BrokenElem}

ListSelectors == {SelGenre, SelActor, SelCountry}

\* the pages on which one of the three anchor selectors matches up to n anchors
AnchorPages(n) ==
    {[BlankPage EXCEPT ![sel] = Found(es)] : sel \in ListSelectors, es \in SeqsUpTo(AnchorKinds, n)}

InitAnchors ==
    /\ selectors = <<>>
    /\ page \in AnchorPages(MaxAnchors)
    /\ value = None
    /\ details = [raised |-> FALSE, fields |-> NoDetails]
    /\ extracted = FALSE
    /\ ListIdle
    /\ OpsIdle
    /\ UrlIdle

NextAnchors == ExtractFilmDetails

SpecAnchors == InitAnchors /\ [][NextAnchors]_vars

\* ------------------------------------------------- inputs of the list spec
SmallHrefs ==
    {<<"/", "1", "/", "a">>, <<"/", "1", "/">>, <<"/", "2", "/", "a">>, <<"/", "2">>}

SmallNodes ==
    {<< <<"A", "b", "c">> >>, << <<" ", "D", "e", "f">> >>, << <<"x">> >>, << <<"a">>, <<" ", "b">> >>}

SmallLinks == {[href |-> h, nodes |-> n] : h \in SmallHrefs, n \in SmallNodes}

HrefAlphabet == {"/", "1", "a"}

Fragments ==
    {<<"t", "o", "p", "-">>, <<"5", "0", "0">>, <<"2", "5", "0">>, <<" ">>, <<"A", "b">>}

ExampleLink ==
    [href |-> <<"/", "1", "2", "3", "4", "5", "/", "s", "o", "m", "e", "-", "s", "l", "u", "g", "/">>,
     nodes |-> << <<"I", "n", "c", "e", "p", "t", "i", "o", "n">> >>]

\* pages of a few short links; one link with any short href; one link whose text
\* is put together from pieces of the boilerplate literals; the example of the spec
ListInputs(links, hreflen, pieces) ==
    SeqsUpTo(SmallLinks, links)
    \cup {<<[href |-> h, nodes |-> n]>> : h \in SeqsUpTo(HrefAlphabet, hreflen), n \in {<< <<"A", "b", "c">> >>, << <<"x">> >>}}
    \cup {<<[href |-> <<"/", "1", "/">>, nodes |-> <<Concat(ps)>>]>> : ps \in SeqsUpTo(Fragments, pieces)}
    \cup {<<ExampleLink>>}

InitList ==
    /\ html \in ListInputs(MaxLinks, MaxHrefLen, MaxPieces)
    /\ films = <<>>
    /\ parsed = FALSE
    /\ first_link = None
    /\ scanned = FALSE
    /\ PageIdle
    /\ OpsIdle
    /\ UrlIdle

ParseFilmList ==
    /\ ~parsed
    /\ films' = parse_film_list(html)
    /\ parsed' = TRUE
    /\ UNCHANGED <<html, first_link, scanned, pageVars, opVars, urlVars>>

NextList == ParseFilmList

SpecList == InitList /\ [][NextList]_vars

\* ------------------------------------------------ _find_first_film_link
inner_text(link) == Concat(link.nodes)

LinkSelected(link) ==
    /\ link.href # <<>>
    /\ StartsWith(link.href, <<"/">>)
    /\ IsDigit(Split(StripChars(link.href, {"/"}), "/")[1])
    /\ inner_text(link) # <<>>
    /\ Len(Strip(inner_text(link))) > 2

RECURSIVE find_first_film_link(_)
find_first_film_link(links) ==
    IF links = <<>> THEN None
    ELSE IF LinkSelected(Head(links)) THEN Some(base_url \o Head(links).href)
    ELSE find_first_film_link(Tail(links))

\* ------------------------------------------- both link rules on one page
\* links = await page.query_selector_all('a[href]') ... return the first film link
ScanFirstFilmLink ==
    /\ ~scanned
    /\ first_link' = find_first_film_link(html)
    /\ scanned' = TRUE
    /\ UNCHANGED <<html, films, parsed, pageVars, opVars, urlVars>>

NextLinks == ParseFilmList \/ ScanFirstFilmLink

SpecLinks == InitList /\ [][NextLinks]_vars

\* ------------------------------------------- the endpoints and the service
Limit == 50

OpLinks ==
    {[href |-> <<"/", "1", "/">>, nodes |-> << <<"A", "b", "c">> >>],
     [href |-> <<"/", "2", "/", "a">>, nodes |-> << <<"D", "e", "f">> >>],
     [href |-> <<"/", "2", "/", "a">>, nodes |-> << <<"x">> >>]}

OpSearchPages(n) == SeqsUpTo(OpLinks, n)

FullPage ==
    [BlankPage EXCEPT !["h1"] = Found(<<Elem(<<"A", "b", "c">>)>>),
                      !["time"] = Found(<<Elem(<<"2", "0", "1", "4">>)>>),
                      ![SelGenre] = Found(<<Elem(<<"d", "r", "a", "m", "a">>)>>)]
NoTitlePage == [FullPage EXCEPT !["h1"] = Missing]
GenreQueryRaisesPage == [FullPage EXCEPT ![SelGenre] = QueryRaises]

OpDetailPages == {FullPage, NoTitlePage, GenreQueryRaisesPage}

Step(r, at, to, ev) ==
    /\ pc[r] = at
    /\ pc' = [pc EXCEPT ![r] = to]
    /\ trace' = [trace EXCEPT ![r] = Append(@, ev)]
    /\ UNCHANGED <<listVars, pageVars, urlVars>>

\* an await inside the try block raised: control goes to the finally block
Raise(r, at, e, ev) ==
    /\ Step(r, at, "close_context", ev)
    /\ exc' = [exc EXCEPT ![r] = e]

\* router: scraper = ImprovedScraperService(); await scraper.<operation>(...)
StartOperation(r) ==
    /\ \E k \in {"genre", "details", "open"} : kind' = [kind EXCEPT ![r] = k]
    /\ Step(r, "idle", "launch", "start")
    /\ UNCHANGED <<browser, context, exc, seen, film_url, dpage, ret, stored, status, response>>

\* open-browser endpoint: is_docker -> raise HTTPException(status_code=501)
RejectInDocker(r) ==
    /\ kind' = [kind EXCEPT ![r] = "open"]
    /\ Step(r, "idle", "done", "docker")
    /\ status' = [status EXCEPT ![r] = 501]
    /\ UNCHANGED <<browser, context, exc, seen, film_url, dpage, ret, stored, response>>

\* browser = await p.chromium.launch(...)
Launch(r) ==
    /\ \/ /\ Step(r, "launch", "new_context", "launch")
          /\ browser' = [browser EXCEPT ![r] = "open"]
          /\ UNCHANGED exc
       \/ /\ Step(r, "launch", "pw_exit", "launch_failed")
          /\ exc' = [exc EXCEPT ![r] = "Error"]
          /\ UNCHANGED browser
    /\ UNCHANGED <<kind, context, seen, film_url, dpage, ret, stored, status, response>>

\* context = await browser.new_context(...): before the try block
NewContext(r) ==
    /\ \/ /\ Step(r, "new_context", "new_page", "new_context")
          /\ context' = [context EXCEPT ![r] = "open"]
          /\ UNCHANGED exc
       \/ /\ Step(r, "new_context", "pw_exit", "new_context_failed")
          /\ exc' = [exc EXCEPT ![r] = "Error"]
          /\ UNCHANGED context
    /\ UNCHANGED <<kind, browser, seen, film_url, dpage, ret, stored, status, response>>

\* page = await context.new_page(): before the try block
NewPage(r) ==
    /\ \/ /\ Step(r, "new_page", "goto_home", "new_page")
          /\ UNCHANGED exc
       \/ /\ Step(r, "new_page", "pw_exit", "new_page_failed")
          /\ exc' = [exc EXCEPT ![r] = "Error"]
    /\ UNCHANGED <<kind, browser, context, seen, film_url, dpage, ret, stored, status, response>>

\* await page.goto(self.base_url, timeout=self.timeout, ...)
GotoHome(r) ==
    /\ \/ Step(r, "goto_home", "sleep_home", "goto_home") /\ UNCHANGED exc
       \/ Raise(r, "goto_home", "TimeoutError", "timeout")
    /\ UNCHANGED <<kind, browser, context, seen, film_url, dpage, ret, stored, status, response>>

\* await asyncio.sleep(2)
SleepHome(r) ==
    /\ Step(r, "sleep_home", "goto_search", "sleep_2")
    /\ UNCHANGED <<kind, browser, context, exc, seen, film_url, dpage, ret, stored, status, response>>

\* await page.goto(search_url, timeout=self.timeout, ...)
GotoSearch(r) ==
    /\ \/ /\ Step(r, "goto_search", "sleep_search", "goto_search")
          /\ \E h \in OpSearchPages(MaxOpLinks) : seen' = [seen EXCEPT ![r] = h]
          /\ UNCHANGED exc
       \/ /\ Raise(r, "goto_search", "TimeoutError", "timeout")
          /\ UNCHANGED seen
    /\ UNCHANGED <<kind, browser, context, film_url, dpage, ret, stored, status, response>>

\* await asyncio.sleep(3)
SleepSearch(r) ==
    /\ Step(r, "sleep_search", IF kind[r] = "genre" THEN "content" ELSE "find_link", "sleep_3")
    /\ UNCHANGED <<kind, browser, context, exc, seen, film_url, dpage, ret, stored, status, response>>

\* html = await page.content(); films = self._parse_film_list(html); return films[:limit]
ParseContent(r) ==
    /\ \/ /\ Step(r, "content", "close_context", "parse")
          /\ ret' = [ret EXCEPT ![r] = [NoReturn EXCEPT !.ok = TRUE,
                                                        !.films = Take(parse_film_list(seen[r]), Limit)]]
          /\ UNCHANGED exc
       \/ /\ Raise(r, "content", "Error", "content_failed")
          /\ UNCHANGED ret
    /\ UNCHANGED <<kind, browser, context, seen, film_url, dpage, stored, status, response>>

\* film_url = await self._find_first_film_link(page); if not film_url: raise ValueError
FindFirstFilmLink(r) ==
    /\ LET found == find_first_film_link(seen[r])
       IN  \/ /\ found.some
              /\ Step(r, "find_link", "goto_detail", "find_link")
              /\ film_url' = [film_url EXCEPT ![r] = found.val]
              /\ UNCHANGED exc
           \/ /\ ~found.some
              /\ Raise(r, "find_link", "ValueError", "find_link")
              /\ UNCHANGED film_url
    /\ UNCHANGED <<kind, browser, context, seen, dpage, ret, stored, status, response>>

\* page.goto(film_url) whose timeout is swallowed: the operation carries on
GotoDetailTimeoutSwallowed(r) ==
    /\ \/ /\ Step(r, "goto_detail", IF kind[r] = "details" THEN "sleep_detail" ELSE "sleep_open", "goto_detail")
          /\ \E d \in OpDetailPages : dpage' = [dpage EXCEPT ![r] = d]
       \/ /\ Step(r, "goto_detail", IF kind[r] = "details" THEN "sleep_detail" ELSE "sleep_open", "timeout")
          /\ UNCHANGED dpage
    /\ UNCHANGED <<kind, browser, context, exc, seen, film_url, ret, stored, status, response>>

\* await page.goto(film_url, timeout=self.timeout, ...)
GotoDetail(r) ==
    /\ \/ /\ Step(r, "goto_detail", IF kind[r] = "details" THEN "sleep_detail" ELSE "sleep_open", "goto_detail")
          /\ \E d \in OpDetailPages : dpage' = [dpage EXCEPT ![r] = d]
          /\ UNCHANGED exc
       \/ /\ Raise(r, "goto_detail", "TimeoutError", "timeout")
          /\ UNCHANGED dpage
    /\ UNCHANGED <<kind, browser, context, seen, film_url, ret, stored, status, response>>

\* await asyncio.sleep(5)
SleepDetail(r) ==
    /\ Step(r, "sleep_detail", "extract", "sleep_5")
    /\ UNCHANGED <<kind, browser, context, exc, seen, film_url, dpage, ret, stored, status, response>>

\* details = await self._extract_film_details(page); details['url'] = film_url; return details
ExtractDetails(r) ==
    /\ LET got == extract_film_details(dpage[r])
       IN  \/ /\ ~got.raised
              /\ Step(r, "extract", "close_context", "extract")
              /\ ret' = [ret EXCEPT ![r] = [NoReturn EXCEPT !.ok = TRUE, !.fields = got.fields,
                                                            !.url = film_url[r]]]
              /\ UNCHANGED exc
           \/ /\ got.raised
              /\ Raise(r, "extract", "Error", "extract")
              /\ UNCHANGED ret
    /\ UNCHANGED <<kind, browser, context, seen, film_url, dpage, stored, status, response>>

\* await asyncio.sleep(30); return {"status": "success", "url": film_url, ...}
SleepOpen(r) ==
    /\ Step(r, "sleep_open", "close_context", "sleep_30")
    /\ ret' = [ret EXCEPT ![r] = [NoReturn EXCEPT !.ok = TRUE, !.url = film_url[r]]]
    /\ UNCHANGED <<kind, browser, context, exc, seen, film_url, dpage, stored, status, response>>

\* finally: await context.close(); an error here replaces the one in flight and
\* skips the rest of the finally block
CloseContext(r) ==
    /\ \/ /\ Step(r, "close_context", "close_browser", "close_context")
          /\ context' = [context EXCEPT ![r] = "closed"]
          /\ UNCHANGED <<exc, ret>>
       \/ /\ Step(r, "close_context", "pw_exit", "close_context_failed")
          /\ exc' = [exc EXCEPT ![r] = "Error"]
          /\ ret' = [ret EXCEPT ![r] = NoReturn]
          /\ UNCHANGED context
    /\ UNCHANGED <<kind, browser, seen, film_url, dpage, stored, status, response>>

\* browser.close() on a browser that every request shares
CloseSharedBrowser(r) ==
    /\ \/ /\ Step(r, "close_browser", "pw_exit", "close_browser")
          /\ browser' = [q \in Requests |-> "closed"]
          /\ UNCHANGED <<exc, ret>>
       \/ /\ Step(r, "close_browser", "pw_exit", "close_browser_failed")
          /\ exc' = [exc EXCEPT ![r] = "Error"]
          /\ ret' = [ret EXCEPT ![r] = NoReturn]
          /\ UNCHANGED browser
    /\ UNCHANGED <<kind, context, seen, film_url, dpage, stored, status, response>>

\* finally: await browser.close()
CloseBrowser(r) ==
    /\ \/ /\ Step(r, "close_browser", "pw_exit", "close_browser")
          /\ browser' = [browser EXCEPT ![r] = "closed"]
          /\ UNCHANGED <<exc, ret>>
       \/ /\ Step(r, "close_browser", "pw_exit", "close_browser_failed")
          /\ exc' = [exc EXCEPT ![r] = "Error"]
          /\ ret' = [ret EXCEPT ![r] = NoReturn]
          /\ UNCHANGED browser
    /\ UNCHANGED <<kind, context, seen, film_url, dpage, stored, status, response>>

\* the end of `async with async_playwright() as p`: the call returns or raises
\* into the endpoint
PlaywrightExit(r) ==
    /\ Step(r, "pw_exit", "router", "pw_exit")
    /\ UNCHANGED <<kind, browser, context, exc, seen, film_url, dpage, ret, stored, status, response>>

\* the except clauses of the endpoints
StatusOf(k, e) ==
    IF k = "genre" /\ e = "HTTPError" THEN 503
    ELSE IF e \in {"ValueError", "ValidationError"} THEN 404
    ELSE 500

\* try: await scraping_results.create_scraping_result(...) except Exception: pass
\* -- the exception in flight after the inner try statement
StoreFailurePropagates(ok) == IF ok THEN "none" ELSE "Error"

StoreOutcome(ok) == "none"

NumRecords(r) ==
    IF kind[r] = "genre" THEN Len(ret[r].films) ELSE IF kind[r] = "details" THEN 1 ELSE 0

\* one create_scraping_result call of the endpoint (one film of the loop, or the details)
StoreResult(r) ==
    /\ exc[r] = "none"
    /\ Len(stored[r]) < NumRecords(r)
    /\ \E ok \in BOOLEAN :
          /\ Step(r, "router", "router", IF ok THEN "store" ELSE "store_failed")
          /\ stored' = [stored EXCEPT ![r] = Append(@, ok)]
          /\ exc' = [exc EXCEPT ![r] = StoreOutcome(ok)]
    /\ UNCHANGED <<kind, browser, context, seen, film_url, dpage, ret, status, response>>

BasicFilms(fs) == [i \in 1..Len(fs) |-> [title |-> fs[i].title, url |-> fs[i].url]]

\* the endpoint builds its response model and returns; FilmDetails(**film_details)
\* raises a ValidationError (a ValueError) when title is None
Respond(r) ==
    /\ exc[r] = "none"
    /\ Len(stored[r]) = NumRecords(r)
    /\ Step(r, "router", "done", "respond")
    /\ \/ /\ kind[r] = "genre"
          /\ status' = [status EXCEPT ![r] = 200]
          /\ response' = [response EXCEPT ![r] = [NoResponse EXCEPT !.films = BasicFilms(ret[r].films),
                                                                    !.count = Len(ret[r].films)]]
       \/ /\ kind[r] = "details"
          /\ ret[r].fields.title.some
          /\ status' = [status EXCEPT ![r] = 200]
          /\ response' = [response EXCEPT ![r] = [NoResponse EXCEPT !.fields = ret[r].fields,
                                                                    !.url = ret[r].url]]
       \/ /\ kind[r] = "details"
          /\ ~ret[r].fields.title.some
          /\ status' = [status EXCEPT ![r] = StatusOf("details", "ValidationError")]
          /\ UNCHANGED response
       \/ /\ kind[r] = "open"
          /\ status' = [status EXCEPT ![r] = 200]
          /\ response' = [response EXCEPT ![r] = [NoResponse EXCEPT !.url = ret[r].url]]
    /\ UNCHANGED <<kind, browser, context, exc, seen, film_url, dpage, ret, stored>>

\* except ...: raise HTTPException(status_code=...)
HandleError(r) ==
    /\ exc[r] # "none"
    /\ Step(r, "router", "done", "error")
    /\ status' = [status EXCEPT ![r] = StatusOf(kind[r], exc[r])]
    /\ UNCHANGED <<kind, browser, context, exc, seen, film_url, dpage, ret, stored, response>>

Init == ListIdle /\ PageIdle /\ OpsIdle /\ UrlIdle

\* one request is served at a time
Serving == {"r1"}

Next ==
    \/ \E r \in Serving : StartOperation(r)
    \/ \E r \in Serving : RejectInDocker(r)
    \/ \E r \in Serving : Launch(r)
    \/ \E r \in Serving : NewContext(r)
    \/ \E r \in Serving : NewPage(r)
    \/ \E r \in Serving : GotoHome(r)
    \/ \E r \in Serving : SleepHome(r)
    \/ \E r \in Serving : GotoSearch(r)
    \/ \E r \in Serving : SleepSearch(r)
    \/ \E r \in Serving : ParseContent(r)
    \/ \E r \in Serving : FindFirstFilmLink(r)
    \/ \E r \in Serving : GotoDetail(r)
    \/ \E r \in Serving : SleepDetail(r)
    \/ \E r \in Serving : ExtractDetails(r)
    \/ \E r \in Serving : SleepOpen(r)
    \/ \E r \in Serving : CloseContext(r)
    \/ \E r \in Serving : CloseBrowser(r)
    \/ \E r \in Serving : PlaywrightExit(r)
    \/ \E r \in Serving : StoreResult(r)
    \/ \E r \in Serving : Respond(r)
    \/ \E r \in Serving : HandleError(r)

Spec == Init /\ [][Next]_vars

\* ------------------------------------------- concurrent requests
\* the pages the concurrent requests render: search pages of at most one anchor
Narrow == \A r \in Requests : seen[r] \in OpSearchPages(1)

NextConcurrent ==
    \/ \E r \in Requests : StartOperation(r) /\ Narrow'
    \/ \E r \in Requests : RejectInDocker(r) /\ Narrow'
    \/ \E r \in Requests : Launch(r) /\ Narrow'
    \/ \E r \in Requests : NewContext(r) /\ Narrow'
    \/ \E r \in Requests : NewPage(r) /\ Narrow'
    \/ \E r \in Requests : GotoHome(r) /\ Narrow'
    \/ \E r \in Requests : SleepHome(r) /\ Narrow'
    \/ \E r \in Requests : GotoSearch(r) /\ Narrow'
    \/ \E r \in Requests : SleepSearch(r) /\ Narrow'
    \/ \E r \in Requests : ParseContent(r) /\ Narrow'
    \/ \E r \in Requests : FindFirstFilmLink(r) /\ Narrow'
    \/ \E r \in Requests : GotoDetail(r) /\ Narrow'
    \/ \E r \in Requests : SleepDetail(r) /\ Narrow'
    \/ \E r \in Requests : ExtractDetails(r) /\ Narrow'
    \/ \E r \in Requests : SleepOpen(r) /\ Narrow'
    \/ \E r \in Requests : CloseContext(r) /\ Narrow'
    \/ \E r \in Requests : CloseBrowser(r) /\ Narrow'
    \/ \E r \in Requests : PlaywrightExit(r) /\ Narrow'
    \/ \E r \in Requests : StoreResult(r) /\ Narrow'
    \/ \E r \in Requests : Respond(r) /\ Narrow'
    \/ \E r \in Requests : HandleError(r) /\ Narrow'

SpecConcurrent == Init /\ [][NextConcurrent]_vars

\* ------------------------------------------- the search URL
MaxQueryLen == 3

SearchPath == <<"/", "s", "e", "a", "r", "c", "h", "/", "?", "q", "=">>

\* search_url = f"{self.base_url}/search/?q={genre}": the text is pasted as it is
SearchUrl(text) == base_url \o SearchPath \o text

QueryAlphabet == {"a", "&", "#", "=", "?", " ", "+", "%", "2", "0"}

InitUrl ==
    /\ query \in SeqsUpTo(QueryAlphabet, MaxQueryLen)
    /\ search_url = <<>>
    /\ built = FALSE
    /\ ListIdle
    /\ PageIdle
    /\ OpsIdle

BuildSearchUrl ==
    /\ ~built
    /\ search_url' = SearchUrl(query)
    /\ built' = TRUE
    /\ UNCHANGED <<query, listVars, pageVars, opVars>>

NextUrl == BuildSearchUrl

SpecUrl == InitUrl /\ [][NextUrl]_vars

\* ---------------------------------------------------- claims on the list parser
Min(S) == CHOOSE i \in S : \A j \in S : i <= j

\* The first path segment of an href, read off the characters: the run that starts
\* at the first character that is not a slash and ends before the next slash.
FirstSegment(h) ==
    LET body == {i \in 1..Len(h) : h[i] # "/"}
    IN  IF body = {} THEN <<>>
        ELSE LET a == Min(body)
                 b == Min({j \in (a + 1)..(Len(h) + 1) : j = Len(h) + 1 \/ h[j] = "/"})
             IN  SubSeq(h, a, b - 1)

NumSegments(h) == Cardinality({i \in 1..Len(h) : h[i] # "/" /\ (i = 1 \/ h[i - 1] = "/")})

FilmShape(h) == h # <<>> /\ h[1] = "/" /\ Count(h, "/") >= 2 /\ IsDigit(FirstSegment(h))

SpecShape(h) == h # <<>> /\ h[1] = "/" /\ NumSegments(h) >= 2 /\ IsDigit(FirstSegment(h))

AcceptedAt(k) == FilmShape(html[k].href) /\ Len(CleanTitle(html[k])) > 2

FirstAccepted(id) == Min({k \in DOMAIN html : AcceptedAt(k) /\ FirstSegment(html[k].href) = id})

FirstOccurrence(id) == Min({k \in DOMAIN html : FilmShape(html[k].href) /\ FirstSegment(html[k].href) = id})

NoDuplicateIds == \A i, j \in DOMAIN films : i # j => films[i].id # films[j].id

\* C4 (as amended): _parse_film_list returns no two entries with the same id; the
\* entries are those of the accepted links (film-shaped href, cleaned title longer
\* than 2), each id once, taken from the first accepted link with that id, in the
\* order of those first accepted links.
C4_FirstAcceptedWins ==
    parsed =>
        /\ NoDuplicateIds
        /\ \A k \in DOMAIN html : AcceptedAt(k) => \E i \in DOMAIN films : films[i].id = FirstSegment(html[k].href)
        /\ \A i \in DOMAIN films :
              /\ \E k \in DOMAIN html : AcceptedAt(k) /\ FirstSegment(html[k].href) = films[i].id
              /\ films[i].title = CleanTitle(html[FirstAccepted(films[i].id)])
        /\ \A i, j \in DOMAIN films : i < j => FirstAccepted(films[i].id) < FirstAccepted(films[j].id)

\* C4 witness: a page on which a later accepted link repeats an id and is dropped,
\* and two films remain.
C4_Witness == parsed /\ Len(films) >= 2 /\ Len(Candidates(html)) > Len(films)

\* C4 (as stated): no two entries share an id and the entries are in the order in
\* which each id first occurs among the hyperlinks of the input.
C4_FirstOccurrenceAmongHyperlinks ==
    parsed =>
        /\ NoDuplicateIds
        /\ \A i, j \in DOMAIN films : i < j => FirstOccurrence(films[i].id) < FirstOccurrence(films[j].id)

\* C5 (as amended): every returned film comes from a link whose href starts with
\* "/", holds at least two "/" characters and has an all-digit first segment; the
\* id is that segment and the url is base + "/" + id + "/"; every such link with a
\* title longer than 2 is returned; /12345/some-slug/ "Inception" gives
\* {12345, Inception, base/12345/}.
C5_SlashCountShape ==
    parsed =>
        /\ \A i \in DOMAIN films : \E k \in DOMAIN html :
              /\ FilmShape(html[k].href)
              /\ films[i].id = FirstSegment(html[k].href)
              /\ films[i].url = base_url \o <<"/">> \o FirstSegment(html[k].href) \o <<"/">>
        /\ \A k \in DOMAIN html : AcceptedAt(k) => \E i \in DOMAIN films : films[i].id = FirstSegment(html[k].href)
        /\ html = <<ExampleLink>> =>
              films = <<[id |-> <<"1", "2", "3", "4", "5">>,
                         title |-> <<"I", "n", "c", "e", "p", "t", "i", "o", "n">>,
                         url |-> <<"https://ua.kinorium.com", "/", "1", "2", "3", "4", "5", "/">>]>>

\* C5 witness: the parser has returned a film for an href with a single path segment.
C5_Witness ==
    parsed /\ films # <<>> /\ \A k \in DOMAIN html : NumSegments(html[k].href) = 1

\* C5 (as stated): every returned film comes from a link whose href starts with "/",
\* has at least two path segments and an all-digit first segment.
C5_TwoPathSegments ==
    parsed =>
        \A i \in DOMAIN films : \E k \in DOMAIN html :
            SpecShape(html[k].href) /\ films[i].id = FirstSegment(html[k].href)

\* C6: every returned title is trimmed, longer than 2 and holds neither boilerplate
\* substring.
C6_TitlesClean ==
    parsed =>
        \A i \in DOMAIN films :
            /\ films[i].title = Strip(films[i].title)
            /\ Len(films[i].title) > 2
            /\ ~Contains(films[i].title, Top500)
            /\ ~Contains(films[i].title, Top250)

\* ------------------------------------------------ claims on the extractors
\* A selector qualifies on a page: querying it does not raise, it matches an
\* element, reading the element's text does not raise and the text holds a
\* character that is not white space.
Qualifies(pg, sel) ==
    /\ pg[sel].ok
    /\ pg[sel].elems # <<>>
    /\ pg[sel].elems[1].ok
    /\ \E i \in 1..Len(pg[sel].elems[1].text) : pg[sel].elems[1].text[i] \notin Whitespace

Trimmed(t) ==
    LET ink == {i \in 1..Len(t) : t[i] \notin Whitespace}
    IN  SubSeq(t, Min(ink), CHOOSE i \in ink : \A j \in ink : j <= i)

QualifyingAt == {k \in DOMAIN selectors : Qualifies(page, selectors[k])}

\* C9: _safe_extract returns the trimmed text of the first selector, in list
\* order, that qualifies, skipping those that are missing, empty or raise, and
\* returns absent exactly when no selector of the list qualifies.
C9_FirstQualifyingSelector ==
    extracted =>
        IF QualifyingAt = {} THEN ~value.some
        ELSE /\ value.some
             /\ value.val = Trimmed(page[selectors[Min(QualifyingAt)]].elems[1].text)

\* C9 witness: the first selector raised, a later one gave padded text, and the
\* trimmed text came back.
C9_Witness ==
    /\ extracted
    /\ Len(selectors) >= 2
    /\ ~page[selectors[1]].ok
    /\ value.some
    /\ \E k \in QualifyingAt : page[selectors[k]].elems[1].text # value.val

\* C7: _extract_film_details never fails, whatever a DOM query does while a field
\* is probed; a page missing every rating selector yields rating absent.
C7_ExtractNeverFails ==
    extracted =>
        /\ ~details.raised
        /\ (\A k \in DOMAIN SelRating : page[SelRating[k]] = Missing) => ~details.fields.rating.some

\* The raw text matched by the year selectors: the text of the first of them
\* that gives a non-blank text.
YearText ==
    LET at == {k \in DOMAIN SelYear : Qualifies(page, SelYear[k])}
    IN  IF at = {} THEN None ELSE Some(Trimmed(page[SelYear[Min(at)]].elems[1].text))

DigitValue(d) == CHOOSE n \in 0..9 : <<"0", "1", "2", "3", "4", "5", "6", "7", "8", "9">>[n + 1] = d

\* s has the four digits 19xx or 20xx at i..i+3
CenturyDigitsAt(s, i) ==
    /\ i >= 1 /\ i + 3 <= Len(s)
    /\ (s[i] = "1" /\ s[i + 1] = "9") \/ (s[i] = "2" /\ s[i + 1] = "0")
    /\ s[i + 2] \in Digits /\ s[i + 3] \in Digits

\* a run of exactly four digits 19xx or 20xx: no digit next to it
YearRunAt(s, i) ==
    /\ CenturyDigitsAt(s, i)
    /\ i > 1 => s[i - 1] \notin Digits
    /\ i + 4 <= Len(s) => s[i + 4] \notin Digits

\* the same, standing alone as a word: no digit, letter or underscore next to it
YearWordAt(s, i) ==
    /\ CenturyDigitsAt(s, i)
    /\ i > 1 => s[i - 1] \notin WordChars
    /\ i + 4 <= Len(s) => s[i + 4] \notin WordChars

FourDigits(s, i) ==
    1000 * DigitValue(s[i]) + 100 * DigitValue(s[i + 1]) + 10 * DigitValue(s[i + 2]) + DigitValue(s[i + 3])

RECURSIVE KeptOfAll(_)
KeptOfAll(es) ==
    IF es = <<>> THEN <<>>
    ELSE (IF \E i \in DOMAIN Head(es).text : Head(es).text[i] \notin Whitespace
          THEN <<Trimmed(Head(es).text)>> ELSE <<>>) \o KeptOfAll(Tail(es))

RECURSIVE JoinComma(_)
JoinComma(ts) ==
    IF ts = <<>> THEN <<>>
    ELSE IF Tail(ts) = <<>> THEN Head(ts)
    ELSE Head(ts) \o <<",", " ">> \o JoinComma(Tail(ts))

\* The field the claim describes: every matching anchor visited, the kept list
\* capped at max, joined with ", "; absent when nothing is kept.
CappedJoin(sel, max) ==
    LET kept == KeptOfAll(page[sel].elems)
    IN  IF kept = <<>> THEN None
        ELSE Some(JoinComma(SubSeq(kept, 1, Min({Len(kept), max}))))

\* C13: when a record is returned, genres, actors and country are the ", "-join
\* of the trimmed non-blank inner texts of all matching anchors, in document
\* order, capped at 5, 5 and 3 kept entries.
C13_CappedJoinOfKept ==
    (extracted /\ ~details.raised) =>
        /\ details.fields.genres = CappedJoin(SelGenre, 5)
        /\ details.fields.actors = CappedJoin(SelActor, 5)
        /\ details.fields.country = CappedJoin(SelCountry, 3)

\* ---------------------------------------------------- claims on the operations
InTrace(r, ev) == \E i \in DOMAIN trace[r] : trace[r][i] = ev

Finished(r) == pc[r] \in {"router", "done"}

C2_TimeoutIs503 ==
    \A r \in Requests :
        (pc[r] = "done" /\ kind[r] \in {"genre", "details"} /\ InTrace(r, "timeout")) =>
            status[r] = 503

\* No anchor of the page has an all-digit first path segment and a text longer
\* than 2 characters.
NoFilmAnchor(links) ==
    ~\E k \in DOMAIN links :
        /\ IsDigit(FirstSegment(links[k].href))
        /\ Len(Strip(Concat(links[k].nodes))) > 2

\* C3: details-by-name on a search page without a film anchor never navigates to a
\* detail page, never extracts, and is answered with 404.
C3_NoLinkIsNotFound ==
    \A r \in Requests :
        (kind[r] = "details" /\ InTrace(r, "find_link") /\ NoFilmAnchor(seen[r])) =>
            /\ ~InTrace(r, "goto_detail")
            /\ ~InTrace(r, "extract")
            /\ pc[r] = "done" => status[r] = 404

\* C8: details-by-name whose detail page yields no title still succeeds, with the
\* title absent.
C8_TitleAbsentSucceeds ==
    \A r \in Requests :
        (kind[r] = "details" /\ pc[r] = "done" /\ ret[r].ok /\ ~ret[r].fields.title.some) =>
            (status[r] = 200 /\ ~response[r].fields.title.some)

\* C10: whatever create_scraping_result calls fail, list-by-genre attempts every
\* film and answers 200 with all the films the scrape returned and their count, and
\* details-by-name answers with the details the scrape returned.
C10_StoreFailureSwallowed ==
    \A r \in Requests :
        (pc[r] = "done" /\ ret[r].ok) =>
            /\ kind[r] = "genre" =>
                  /\ status[r] = 200
                  /\ Len(stored[r]) = Len(ret[r].films)
                  /\ response[r].count = Len(ret[r].films)
                  /\ Len(response[r].films) = Len(ret[r].films)
                  /\ \A i \in DOMAIN ret[r].films :
                        /\ response[r].films[i].title = ret[r].films[i].title
                        /\ response[r].films[i].url = ret[r].films[i].url
            /\ (kind[r] = "details" /\ ret[r].fields.title.some) =>
                  /\ status[r] = 200
                  /\ Len(stored[r]) = 1
                  /\ response[r].fields = ret[r].fields
                  /\ response[r].url = ret[r].url

\* C10 witness: a list-by-genre request answered after the store of its first film
\* failed and the store of its second succeeded.
C10_Witness ==
    \E r \in Requests :
        /\ pc[r] = "done"
        /\ kind[r] = "genre"
        /\ stored[r] = <<FALSE, TRUE>>
        /\ response[r].count = 2

\* ------------------------------------------- claims on the two link rules
\* The href of the link _find_first_film_link selected: its URL without the base.
SelectedHref == SubSeq(first_link.val, Len(base_url) + 1, Len(first_link.val))

\* C16: on the same rendered search page, whenever _find_first_film_link selects
\* a link, _parse_film_list is non-empty and its first entry has the id of that
\* link, and whenever _parse_film_list is non-empty _find_first_film_link finds
\* a link.
C16_LinkRulesAgree ==
    (parsed /\ scanned) =>
        /\ first_link.some => (films # <<>> /\ films[1].id = FirstSegment(SelectedHref))
        /\ films # <<>> => first_link.some

\* ------------------------------------------- claims on the order of the steps
FlowSteps == {"goto_home", "sleep_2", "goto_search", "sleep_3", "parse", "find_link",
              "goto_detail", "sleep_5", "extract", "sleep_30"}

\* the step that comes immediately before step ev of an operation of kind k
Preceding(k, ev) ==
    IF ev = "goto_home" THEN "new_page"
    ELSE IF ev = "sleep_2" THEN "goto_home"
    ELSE IF ev = "goto_search" THEN "sleep_2"
    ELSE IF ev = "sleep_3" THEN "goto_search"
    ELSE IF ev = "parse" THEN "sleep_3"
    ELSE IF ev = "find_link" THEN "sleep_3"
    ELSE IF ev = "goto_detail" THEN "find_link"
    ELSE IF ev = "sleep_5" THEN "goto_detail"
    ELSE IF ev = "extract" THEN "sleep_5"
    ELSE "goto_detail"

\* the steps an operation of kind k has
StepsOf(k) ==
    IF k = "genre" THEN {"goto_home", "sleep_2", "goto_search", "sleep_3", "parse"}
    ELSE IF k = "details" THEN FlowSteps \ {"parse", "sleep_30"}
    ELSE FlowSteps \ {"parse", "sleep_5", "extract"}

\* C15: the steps of an operation come in the fixed order home, settle, search,
\* settle, then list parsing, or link scan, detail page, settle and extraction;
\* each step happens at most once and directly after the one before it; after a
\* timed-out navigation no further step happens, nothing is returned and the
\* request is not answered with a result.
C15_OrderedFlowAbortsOnTimeout ==
    \A r \in Requests :
        LET t == trace[r]
        IN  /\ \A i \in DOMAIN t :
                  t[i] \in FlowSteps =>
                        /\ t[i] \in StepsOf(kind[r])
                        /\ i > 1 /\ t[i - 1] = Preceding(kind[r], t[i])
                        /\ \A j \in DOMAIN t : t[j] = t[i] => j = i
            /\ \A i \in DOMAIN t :
                  t[i] = "timeout" =>
                        /\ i > 1 /\ t[i - 1] \in {"new_page", "sleep_2", "find_link"}
                        /\ \A j \in DOMAIN t : j > i => t[j] \notin FlowSteps \cup {"timeout"}
                        /\ ~ret[r].ok
                        /\ response[r] = NoResponse
                        /\ status[r] # 200

\* C15 witness: a details request whose navigation to the detail page timed out
\* after the link scan, answered with an error.
C15_Witness ==
    \E r \in Requests :
        /\ kind[r] = "details"
        /\ pc[r] = "done"
        /\ InTrace(r, "find_link")
        /\ InTrace(r, "timeout")
        /\ trace[r][Len(trace[r])] = "error"

\* ------------------------------------------- claims on concurrent requests
\* Everything the model holds for request r.
StateOf(r) ==
    <<kind[r], pc[r], browser[r], context[r], exc[r], seen[r], film_url[r], dpage[r],
      ret[r], stored[r], status[r], response[r], trace[r]>>

\* A step is a step of one request and leaves every other request as it was.
OneRequestSteps == \E r \in Requests : \A q \in Requests \ {r} : StateOf(q)' = StateOf(q)

\* The session of r is what r's own steps made it, and what r returned is what
\* its own pages give.
OwnSession(r) ==
    /\ browser[r] = IF InTrace(r, "close_browser") THEN "closed"
                    ELSE IF InTrace(r, "launch") THEN "open" ELSE "none"
    /\ context[r] = IF InTrace(r, "close_context") THEN "closed"
                    ELSE IF InTrace(r, "new_context") THEN "open" ELSE "none"
    /\ (ret[r].ok /\ kind[r] = "genre") =>
            ret[r].films = SubSeq(parse_film_list(seen[r]), 1, Min({Limit, Len(parse_film_list(seen[r]))}))
    /\ (ret[r].ok /\ kind[r] \in {"details", "open"}) =>
            ret[r].url = find_first_film_link(seen[r]).val
    /\ (ret[r].ok /\ kind[r] = "details") =>
            ret[r].fields = extract_film_details(dpage[r]).fields

\* C14: in every interleaving of concurrent requests each step belongs to one
\* request and touches only that request's session and data, a session is opened
\* and closed only by its own request, and what a request returns is what it
\* would return alone on the same pages.
C14_RequestsIsolated == [](\A r \in Requests : OwnSession(r)) /\ [][OneRequestSteps]_vars

\* C14 witness: one request has failed and been answered while the other, started
\* before that, is in mid-flight with its session still open.
C14_Witness ==
    \E r, q \in Requests :
        /\ r # q
        /\ pc[r] = "done" /\ status[r] = 500 /\ InTrace(r, "close_browser")
        /\ browser[q] = "open" /\ context[q] = "open" /\ pc[q] = "goto_detail"

\* ------------------------------------------- claims on the search URL
\* The position of the first c in s, 0 if there is none.
IndexOf(s, c) ==
    IF \E i \in DOMAIN s : s[i] = c
    THEN CHOOSE i \in DOMAIN s : s[i] = c /\ \A j \in 1..(i - 1) : s[j] # c
    ELSE 0

BeforeFirst(s, c) == IF IndexOf(s, c) = 0 THEN s ELSE SubSeq(s, 1, IndexOf(s, c) - 1)

AfterFirst(s, c) == IF IndexOf(s, c) = 0 THEN <<>> ELSE SubSeq(s, IndexOf(s, c) + 1, Len(s))

\* The character a percent escape with hex digits h, l stands for.
Escaped(h, l) ==
    IF h = "2" /\ l = "0" THEN " "
    ELSE IF h = "2" /\ l = "2" THEN "\""
    ELSE IF h = "0" /\ l = "0" THEN "NUL"
    ELSE "STX"

\* Query-string decoding of a value: "+" is a space, %hl is the escaped character.
RECURSIVE Unquote(_)
Unquote(s) ==
    IF s = <<>> THEN <<>>
    ELSE IF Head(s) = "+" THEN <<" ">> \o Unquote(Tail(s))
    ELSE IF Head(s) = "%" /\ Len(s) >= 3 /\ s[2] \in Digits /\ s[3] \in Digits
         THEN <<Escaped(s[2], s[3])>> \o Unquote(SubSeq(s, 4, Len(s)))
    ELSE <<Head(s)>> \o Unquote(Tail(s))

\* The decoded q parameter of a URL: the fragment is cut at the first "#", the
\* query is what follows the first "?", its parameters are separated by "&", and
\* a parameter is name=value.
QParam(url) ==
    LET pairs == Split(AfterFirst(BeforeFirst(url, "#"), "?"), "&")
        named == {i \in DOMAIN pairs : BeforeFirst(pairs[i], "=") = <<"q">>}
    IN  IF named = {} THEN <<>>
        ELSE LET i == CHOOSE k \in named : \A j \in named : k <= j
             IN  Unquote(AfterFirst(pairs[i], "="))

\* C11: decoding the q parameter of the search URL gives back exactly the
\* caller's text, whatever characters the text contains.
C11_QueryRoundTrip == built => QParam(search_url) = query

====
